---- MODULE Spec2Model ----
(***************************************************************************)
(* InvyTrack: the Product entity and its CSV-backed record store           *)
(* (src/product/product.py).                                               *)
(*                                                                         *)
(* The backing file data/products.csv is modelled at the level the csv     *)
(* module presents it: a sequence of rows, each row a sequence of text     *)
(* cells.  In-memory entities hold typed values (int, bool, float); every  *)
(* write goes through str() and every read through int()/float()/          *)
(* == "True", which are modelled below on the text.                        *)
(***************************************************************************)
EXTENDS Integers, Sequences, FiniteSets, TLC

VARIABLES
    exists,   \* the backing file exists
    rows,     \* its content: a sequence of rows (header first, when written)
    objs,     \* the Product objects the caller holds, in order of construction
    pidLog,   \* the pid each completed __init__ assigned, in order
    appended, \* for each object held: the line of the file its __init__
              \* appended, 0 when the append failed, -1 for an object that
              \* get_product returned
    last,     \* record of the last operation: inputs, state before, outcome
    steps,    \* number of calls made so far
    limit,    \* number of calls the caller makes in this run
    actors    \* the position of each concurrent actor inside __init__

vars ==
    <<exists, rows, objs, pidLog, appended, last, steps, limit, actors>>

-----------------------------------------------------------------------------
(* Bounds of the model                                                     *)

MaxSteps == 3      \* calls per run
MaxObjs  == 2      \* Product objects held at once
MaxInv   == 3      \* largest inventory count explored
MaxAmount == 2     \* largest amount added or removed in one call
MaxPid   == 3      \* largest pid asked of get_product

-----------------------------------------------------------------------------
(* Text conversions: str(int), int(text), str(bool), str(float),           *)
(* float(text).  A float with at most two decimals is held as an integer   *)
(* number of hundredths.                                                   *)

Digit == <<"0", "1", "2", "3", "4", "5", "6", "7", "8", "9">>

RECURSIVE StrOfNat(_)
StrOfNat(n) ==
    IF n < 10 THEN Digit[n + 1]
    ELSE StrOfNat(n \div 10) \o Digit[(n % 10) + 1]

\* str(n) for a Python int
StrOfInt(n) == IF n < 0 THEN "-" \o StrOfNat(0 - n) ELSE StrOfNat(n)

\* the integers whose decimal text the model can meet
IntRange == (0 - 2) .. (MaxInv + MaxObjs + MaxSteps + 3)

\* int(s) succeeds (no ValueError)
IsIntText(s) == \E n \in IntRange : StrOfInt(n) = s

\* int(s), when it succeeds
IntOfText(s) == CHOOSE n \in IntRange : StrOfInt(n) = s

\* str(b) for a Python bool
StrOfBool(b) == IF b THEN "True" ELSE "False"

\* the comparison row["is_active"] == "True"
BoolOfText(s) == s = "True"

\* repr of a float with at most two decimals, c hundredths: 999 -> "9.99",
\* 950 -> "9.5", 500 -> "5.0"
StrOfFloat(c) ==
    LET a == IF c < 0 THEN 0 - c ELSE c
        whole == StrOfNat(a \div 100)
        frac == IF a % 10 = 0 THEN Digit[((a % 100) \div 10) + 1]
                ELSE Digit[((a % 100) \div 10) + 1] \o Digit[(a % 10) + 1]
    IN  (IF c < 0 THEN "-" ELSE "") \o whole \o "." \o frac

\* the floats (in hundredths) whose text the model can meet
FloatRange == {0 - 100, 0, 1, 250, 500, 999}

\* float(s) succeeds: s is the text of a float or of an int
IsFloatText(s) == (\E c \in FloatRange : StrOfFloat(c) = s) \/ IsIntText(s)

\* float(s), when it succeeds
FloatOfText(s) ==
    IF \E c \in FloatRange : StrOfFloat(c) = s
    THEN CHOOSE c \in FloatRange : StrOfFloat(c) = s
    ELSE 100 * IntOfText(s)

-----------------------------------------------------------------------------
(* Product: class attributes and value domains                             *)

\* product.py:19
product_columns ==
    <<"pid", "is_active", "inventory", "pname", "pdescription", "pprice",
      "added_date", "ptags">>

\* positions of the columns in a row (row[0] .. row[7] in the source)
ColPid == 1
ColActive == 2
ColInventory == 3
ColName == 4
ColDescription == 5
ColPrice == 6
ColDate == 7
ColTags == 8

\* values the caller passes to the setters (no setter checks its argument:
\* set_pprice takes any float, product.py:233-241)
Names == {"Widget", "Gadget"}
Descriptions == {"A widget", "A gadget\r\nMk2"}
Prices == {999, 0}
TagSets == {"tag1|tag2", "tag3"}
Dates == {"2024-01-01", "2024-01-02"}

\* what the operating system answers to an open() of the file:
\*   "ok", "read_denied" (open for reading raises PermissionError),
\*   "write_denied" (open for writing or appending raises PermissionError)
IOConditions == {"ok", "read_denied", "write_denied"}

\* the conditions that matter to a call that only reads (get_product) and
\* to one that reads and then rewrites (_update_file: either denial ends in
\* the same except clause)
ReadConditions == {"ok", "read_denied"}
RewriteConditions == {"ok", "write_denied"}

\* the object a failed call returns: None
None ==
    [pid |-> 0, is_active |-> FALSE, inventory |-> 0, pname |-> "",
     pdescription |-> "", pprice |-> 0, added_date |-> "", ptags |-> ""]

\* the row csv.writer emits for a Product: str() of every attribute
RowOf(p) ==
    <<StrOfInt(p.pid), StrOfBool(p.is_active), StrOfInt(p.inventory), p.pname,
      p.pdescription, StrOfFloat(p.pprice), p.added_date, p.ptags>>

-----------------------------------------------------------------------------
(* Record store: the class and static methods that touch the file          *)

\* open(file, "r") without newline="" (product.py:82, 288, 355) reads with
\* universal newlines: a "\r\n" or a "\r" inside a quoted cell reaches
\* csv.reader as "\n".  The cells written through open(file, "a" or "w",
\* newline="") are stored as given.
universal_newlines(s) == IF s = "A gadget\r\nMk2" THEN "A gadget\nMk2" ELSE s

\* the rows csv.reader yields for a file content read that way
csv_reader(rws) ==
    [i \in 1..Len(rws) |->
        [k \in 1..Len(rws[i]) |-> universal_newlines(rws[i][k])]]

\* _generate_pid without the + 1 of product.py:85
generate_pid_OffByOne(ex, rws, io) ==
    IF ~ex THEN [exc |-> "none", pid |-> 1]
    ELSE IF io = "read_denied" THEN [exc |-> "PermissionError", pid |-> 0]
    ELSE IF Len(rws) = 0 THEN [exc |-> "StopIteration", pid |-> 0]
    ELSE [exc |-> "none", pid |-> Len(rws) - 1]

\* Product._generate_pid (product.py:73-88).  The try block catches only
\* FileNotFoundError: a PermissionError from open() and the StopIteration
\* that next(reader) raises on a file without a first line both leave the
\* method.
generate_pid(ex, rws, io) ==
    IF ~ex THEN [exc |-> "none", pid |-> 1]
    ELSE IF io = "read_denied" THEN [exc |-> "PermissionError", pid |-> 0]
    ELSE IF Len(rws) = 0 THEN [exc |-> "StopIteration", pid |-> 0]
    ELSE [exc |-> "none", pid |-> (Len(rws) - 1) + 1]

\* Product._file_exists (product.py:115-127): open for reading; only
\* FileNotFoundError is caught.
file_exists(ex, io) ==
    IF ~ex THEN [exc |-> "none", val |-> FALSE]
    ELSE IF io = "read_denied" THEN [exc |-> "PermissionError", val |-> FALSE]
    ELSE [exc |-> "none", val |-> TRUE]

\* the with block of _write_to_file (product.py:100-107): the file
\* content after the append
writerows(rws, write_header, p) ==
    (IF write_header THEN rws \o <<product_columns>> ELSE rws) \o <<RowOf(p)>>

\* Product._write_to_file (product.py:90-113): the header is written when
\* _file_exists() answered False; every exception is caught and printed.
write_to_file(ex, rws, io, p) ==
    LET fe == file_exists(ex, io) IN
    IF fe.exc # "none" \/ io = "write_denied"
    THEN [exists |-> ex, rows |-> rws, diag |-> "write_permission",
          wrote |-> FALSE]
    ELSE [exists |-> TRUE, rows |-> writerows(rws, ~fe.val, p),
          diag |-> "none", wrote |-> TRUE]

\* _update_file assigning row[6] = self.added_date as well
UpdatedRow_WritesDate(row, p) ==
    [row EXCEPT ![ColActive] = StrOfBool(p.is_active),
                ![ColInventory] = StrOfInt(p.inventory),
                ![ColName] = p.pname,
                ![ColDescription] = p.pdescription,
                ![ColPrice] = StrOfFloat(p.pprice),
                ![ColDate] = p.added_date,
                ![ColTags] = p.ptags]

\* the row _update_file assigns into: columns 1, 2, 3, 4, 5 and 7 of the
\* source (product.py:295-300) take str() of the object's attributes
UpdatedRow(row, p) ==
    [row EXCEPT ![ColActive] = StrOfBool(p.is_active),
                ![ColInventory] = StrOfInt(p.inventory),
                ![ColName] = p.pname,
                ![ColDescription] = p.pdescription,
                ![ColPrice] = StrOfFloat(p.pprice),
                ![ColTags] = p.ptags]

\* index of the first row whose first cell is str(pid), 0 when there is
\* none (the for loop with break, product.py:293-301; the loop runs over
\* every line of the file, the first one included)
FirstMatch(rws, pid) ==
    LET m == {i \in 1..Len(rws) : rws[i][ColPid] = StrOfInt(pid)}
    IN  IF m = {} THEN 0 ELSE CHOOSE i \in m : \A j \in m : i <= j

\* _update_file adding the updated row at the end of the file instead of
\* assigning into the matching row
update_file_AppendsRow(ex, rws, io, p) ==
    IF ~ex
    THEN [rows |-> rws, diag |-> "update_filenotfound", wrote |-> FALSE,
          exc |-> "none"]
    ELSE IF io # "ok"
    THEN [rows |-> rws, diag |-> "update_io", wrote |-> FALSE, exc |-> "none"]
    ELSE LET read == csv_reader(rws)
             k == FirstMatch(read, p.pid)
         IN  [rows |-> IF k = 0 THEN read
                       ELSE Append(read, UpdatedRow(read[k], p)),
              diag |-> "none", wrote |-> TRUE, exc |-> "none"]

\* Product._update_file (product.py:280-312): read all rows, overwrite the
\* first matching one, write all rows back; every exception is caught.
update_file(ex, rws, io, p) ==
    IF ~ex
    THEN [rows |-> rws, diag |-> "update_filenotfound", wrote |-> FALSE,
          exc |-> "none"]
    ELSE IF io # "ok"
    THEN [rows |-> rws, diag |-> "update_io", wrote |-> FALSE, exc |-> "none"]
    ELSE LET read == csv_reader(rws)
             k == FirstMatch(read, p.pid)
         IN  [rows |-> IF k = 0 THEN read
                       ELSE [read EXCEPT ![k] = UpdatedRow(read[k], p)],
              diag |-> "none", wrote |-> TRUE, exc |-> "none"]

\* csv.DictReader: the first line names the columns; a later duplicate of
\* a name wins in the dict
HasKey(fieldnames, name) == \E k \in 1..Len(fieldnames) : fieldnames[k] = name

KeyIndex(fieldnames, name) ==
    CHOOSE k \in 1..Len(fieldnames) :
        /\ fieldnames[k] = name
        /\ \A j \in 1..Len(fieldnames) : fieldnames[j] = name => j <= k

Field(fieldnames, row, name) == row[KeyIndex(fieldnames, name)]

\* Product.from_existing (product.py:44-71)
from_existing(pid, is_active, inventory, pname, pdescription, pprice, added_date, ptags) ==
    [pid |-> pid, is_active |-> is_active, inventory |-> inventory,
     pname |-> pname, pdescription |-> pdescription, pprice |-> pprice,
     added_date |-> added_date, ptags |-> ptags]

\* the exception, if any, that building the object from a matching row
\* raises (product.py:359-368): the arguments are evaluated in order
HydrateError(fieldnames, row) ==
    IF ~HasKey(fieldnames, "is_active") THEN "KeyError"
    ELSE IF ~HasKey(fieldnames, "inventory") THEN "KeyError"
    ELSE IF ~IsIntText(Field(fieldnames, row, "inventory")) THEN "ValueError"
    ELSE IF ~HasKey(fieldnames, "pname") THEN "KeyError"
    ELSE IF ~HasKey(fieldnames, "pdescription") THEN "KeyError"
    ELSE IF ~HasKey(fieldnames, "pprice") THEN "KeyError"
    ELSE IF ~IsFloatText(Field(fieldnames, row, "pprice")) THEN "ValueError"
    ELSE IF ~HasKey(fieldnames, "added_date") THEN "KeyError"
    ELSE IF ~HasKey(fieldnames, "ptags") THEN "KeyError"
    ELSE "none"

Hydrate(fieldnames, row) ==
    from_existing(IntOfText(Field(fieldnames, row, "pid")),
                  BoolOfText(Field(fieldnames, row, "is_active")),
                  IntOfText(Field(fieldnames, row, "inventory")),
                  Field(fieldnames, row, "pname"),
                  Field(fieldnames, row, "pdescription"),
                  FloatOfText(Field(fieldnames, row, "pprice")),
                  Field(fieldnames, row, "added_date"),
                  Field(fieldnames, row, "ptags"))

\* get_product's outcome when it prints a message and returns None
\* (product.py:369-376)
Miss(diag) == [found |-> FALSE, obj |-> None, diag |-> diag, exc |-> "none"]

DiagOfLookupError(e) ==
    IF e = "ValueError" THEN "lookup_malformed" ELSE "lookup_unexpected"

\* the for loop of get_product from line i of the file on
\* (product.py:357-369)
RECURSIVE ScanFrom(_, _, _, _)
ScanFrom(fieldnames, rws, i, pid) ==
    IF i > Len(rws) THEN Miss("lookup_notfound")
    ELSE IF ~HasKey(fieldnames, "pid")
    THEN Miss("lookup_unexpected")
    ELSE IF ~IsIntText(Field(fieldnames, rws[i], "pid"))
    THEN Miss("lookup_malformed")
    ELSE IF IntOfText(Field(fieldnames, rws[i], "pid")) = pid
    THEN IF HydrateError(fieldnames, rws[i]) # "none"
         THEN Miss(DiagOfLookupError(HydrateError(fieldnames, rws[i])))
         ELSE [found |-> TRUE, obj |-> Hydrate(fieldnames, rws[i]),
               diag |-> "none", exc |-> "none"]
    ELSE ScanFrom(fieldnames, rws, i + 1, pid)

\* get_product without the except FileNotFoundError clause
get_product_FileNotFoundEscapes(ex, rws, io, pid) ==
    IF ~ex
    THEN [found |-> FALSE, obj |-> None, diag |-> "none",
          exc |-> "FileNotFoundError"]
    ELSE IF io = "read_denied" THEN Miss("lookup_unexpected")
    ELSE IF Len(rws) = 0 THEN Miss("lookup_notfound")
    ELSE ScanFrom(csv_reader(rws)[1], csv_reader(rws), 2, pid)

\* Product.get_product (product.py:339-376): every exception is caught and
\* None is returned
get_product(ex, rws, io, pid) ==
    IF ~ex THEN Miss("lookup_filenotfound")
    ELSE IF io = "read_denied"
    THEN Miss("lookup_unexpected")
    ELSE IF Len(rws) = 0
    THEN Miss("lookup_notfound")
    ELSE ScanFrom(csv_reader(rws)[1], csv_reader(rws), 2, pid)

-----------------------------------------------------------------------------
(* Product entity: constructor, setters, inventory operations.  Each       *)
(* operator gives the outcome of one call: the object afterwards, the      *)
(* file afterwards, the message printed and the exception that leaves the  *)
(* call.                                                                   *)

\* Product.__init__ (product.py:21-42)
Product(ex, rws, io, pname, pdescription, inventory, pprice, ptags, today) ==
    LET g == generate_pid(ex, rws, io)
        self == [pid |-> g.pid, is_active |-> TRUE, inventory |-> inventory,
                 pname |-> pname, pdescription |-> pdescription,
                 pprice |-> pprice, added_date |-> today, ptags |-> ptags]
        w == write_to_file(ex, rws, io, self)
    IN  IF g.exc # "none"
        THEN [exc |-> g.exc, obj |-> None, exists |-> ex, rows |-> rws,
              diag |-> "none", wrote |-> FALSE]
        ELSE [exc |-> "none", obj |-> self, exists |-> w.exists,
              rows |-> w.rows, diag |-> w.diag, wrote |-> w.wrote]

\* set_is_active that cannot reactivate: an inactive product stays inactive
set_is_active_Terminal(self, ex, rws, io, is_active) ==
    LET new == [self EXCEPT !.is_active = self.is_active /\ is_active]
        u == update_file(ex, rws, io, new)
    IN  [obj |-> new, rows |-> u.rows, diag |-> u.diag, wrote |-> u.wrote,
         exc |-> u.exc]

\* Product.set_is_active (product.py:203-211)
set_is_active(self, ex, rws, io, is_active) ==
    LET new == [self EXCEPT !.is_active = is_active]
        u == update_file(ex, rws, io, new)
    IN  [obj |-> new, rows |-> u.rows, diag |-> u.diag, wrote |-> u.wrote,
         exc |-> u.exc]

\* Product.set_pname (product.py:213-221)
set_pname(self, ex, rws, io, pname) ==
    LET new == [self EXCEPT !.pname = pname]
        u == update_file(ex, rws, io, new)
    IN  [obj |-> new, rows |-> u.rows, diag |-> u.diag, wrote |-> u.wrote,
         exc |-> u.exc]

\* Product.set_pdescription (product.py:223-231)
set_pdescription(self, ex, rws, io, pdescription) ==
    LET new == [self EXCEPT !.pdescription = pdescription]
        u == update_file(ex, rws, io, new)
    IN  [obj |-> new, rows |-> u.rows, diag |-> u.diag, wrote |-> u.wrote,
         exc |-> u.exc]

\* Product.set_pprice (product.py:233-241)
set_pprice(self, ex, rws, io, pprice) ==
    LET new == [self EXCEPT !.pprice = pprice]
        u == update_file(ex, rws, io, new)
    IN  [obj |-> new, rows |-> u.rows, diag |-> u.diag, wrote |-> u.wrote,
         exc |-> u.exc]

\* Product.set_ptags (product.py:243-251)
set_ptags(self, ex, rws, io, ptags) ==
    LET new == [self EXCEPT !.ptags = ptags]
        u == update_file(ex, rws, io, new)
    IN  [obj |-> new, rows |-> u.rows, diag |-> u.diag, wrote |-> u.wrote,
         exc |-> u.exc]

\* add_inventory with the guard num >= 0 in place of num > 0
add_inventory_AcceptsZero(self, ex, rws, io, num) ==
    IF num >= 0
    THEN LET new == [self EXCEPT !.inventory = self.inventory + num]
             u == update_file(ex, rws, io, new)
         IN  [obj |-> new, rows |-> u.rows, diag |-> u.diag,
              wrote |-> u.wrote, exc |-> u.exc]
    ELSE [obj |-> self, rows |-> rws, diag |-> "add_invalid",
          wrote |-> FALSE, exc |-> "none"]

\* Product.add_inventory (product.py:254-265)
add_inventory(self, ex, rws, io, num) ==
    IF num > 0
    THEN LET new == [self EXCEPT !.inventory = self.inventory + num]
             u == update_file(ex, rws, io, new)
         IN  [obj |-> new, rows |-> u.rows, diag |-> u.diag, wrote |-> u.wrote,
         exc |-> u.exc]
    ELSE [obj |-> self, rows |-> rws, diag |-> "add_invalid",
          wrote |-> FALSE, exc |-> "none"]

\* remove_inventory without the bound num <= self.inventory
remove_inventory_Unbounded(self, ex, rws, io, num) ==
    IF num > 0
    THEN LET new == [self EXCEPT !.inventory = self.inventory - num]
             u == update_file(ex, rws, io, new)
         IN  [obj |-> new, rows |-> u.rows, diag |-> u.diag,
              wrote |-> u.wrote, exc |-> u.exc]
    ELSE [obj |-> self, rows |-> rws, diag |-> "remove_invalid",
          wrote |-> FALSE, exc |-> "none"]

\* remove_inventory with the bound num < self.inventory: the boundary
\* num = self.inventory is refused
remove_inventory_StrictBound(self, ex, rws, io, num) ==
    IF num > 0 /\ num < self.inventory
    THEN LET new == [self EXCEPT !.inventory = self.inventory - num]
             u == update_file(ex, rws, io, new)
         IN  [obj |-> new, rows |-> u.rows, diag |-> u.diag,
              wrote |-> u.wrote, exc |-> u.exc]
    ELSE [obj |-> self, rows |-> rws, diag |-> "remove_invalid",
          wrote |-> FALSE, exc |-> "none"]

\* Product.remove_inventory (product.py:267-278)
remove_inventory(self, ex, rws, io, num) ==
    IF num > 0 /\ num <= self.inventory
    THEN LET new == [self EXCEPT !.inventory = self.inventory - num]
             u == update_file(ex, rws, io, new)
         IN  [obj |-> new, rows |-> u.rows, diag |-> u.diag, wrote |-> u.wrote,
         exc |-> u.exc]
    ELSE [obj |-> self, rows |-> rws, diag |-> "remove_invalid",
          wrote |-> FALSE, exc |-> "none"]

-----------------------------------------------------------------------------
(* The program: a caller that constructs, looks up and mutates Product     *)
(* objects, one call at a time.                                            *)

\* arguments of the constructor, as take_constructor_input accepts them
\* (product.py:325-337): inventory >= 0, price >= 0.01; today is the day
\* datetime.now() gives when the call is made (product.py:40)
CreateInputs ==
    {[pname |-> "Widget", pdescription |-> "A widget", inventory |-> 2,
      pprice |-> 999, ptags |-> "tag1|tag2", today |-> "2024-01-01"],
     [pname |-> "Gadget", pdescription |-> "A gadget\r\nMk2",
      inventory |-> 0, pprice |-> 500, ptags |-> "tag3",
      today |-> "2024-01-02"]}

\* amounts passed to add_inventory / remove_inventory
Amounts == (0 - 1) .. MaxAmount

\* a row an earlier run of the program left in the file
StoredProduct ==
    [pid |-> 1, is_active |-> TRUE, inventory |-> 2, pname |-> "Widget",
     pdescription |-> "A widget", pprice |-> 999,
     added_date |-> "2024-01-01", ptags |-> "tag1|tag2"]

\* the file as the program finds it: absent, zero-length, header only, or
\* header and one row
InitialFiles ==
    {[exists |-> FALSE, rows |-> <<>>],
     [exists |-> TRUE, rows |-> <<>>],
     [exists |-> TRUE, rows |-> <<product_columns>>],
     [exists |-> TRUE, rows |-> <<product_columns, RowOf(StoredProduct)>>]}

\* the argument of a call, by its type: an int (inventory, amount, pid), a
\* float in hundredths (price), a bool or a str
NoArg == [num |-> 0, flag |-> FALSE, text |-> ""]
IntArg(n) == [NoArg EXCEPT !.num = n]
BoolArg(b) == [NoArg EXCEPT !.flag = b]
StrArg(t) == [NoArg EXCEPT !.text = t]

\* the record of a call: what was called on which object with which
\* argument under which I/O condition, the file and the object before,
\* the outcome, and (prior) the call made immediately before it when that
\* was the same operation on the same object
NoPrior ==
    [op |-> "none", idx |-> 0, arg |-> NoArg, diag |-> "none",
     preRows |-> <<>>, preObj |-> None]

Call(op, idx, arg, io, before, r) ==
    [op |-> op, idx |-> idx, arg |-> arg, io |-> io,
     preExists |-> exists, preRows |-> rows, preObj |-> before,
     exc |-> r.exc, diag |-> r.diag, wrote |-> r.wrote, result |-> r.obj,
     prior |-> IF last.op = op /\ last.idx = idx /\ idx # 0
               THEN [op |-> last.op, idx |-> last.idx, arg |-> last.arg,
                     diag |-> last.diag, preRows |-> last.preRows,
                     preObj |-> last.preObj]
               ELSE NoPrior]

\* two actors that may each be inside a Product(...) call at once
Actors == {"A", "B"}

\* an actor that has not called Product(...) yet
Idle == [pc |-> "idle", self |-> None, write_header |-> FALSE,
         overlapped |-> FALSE]

InitWith(calls) ==
    /\ \E f \in InitialFiles : exists = f.exists /\ rows = f.rows
    /\ objs = <<>>
    /\ pidLog = <<>>
    /\ appended = <<>>
    /\ last = [op |-> "none", idx |-> 0, arg |-> NoArg, io |-> "ok",
               preExists |-> exists, preRows |-> rows, preObj |-> None,
               exc |-> "none", diag |-> "none", wrote |-> FALSE,
               result |-> None, prior |-> NoPrior]
    /\ steps = 0
    /\ limit = calls
    /\ actors = [a \in Actors |-> Idle]

Init == InitWith(MaxSteps)

\* p = Product(pname, pdescription, inventory, pprice, ptags)
Create(io, pname, pdescription, inventory, pprice, ptags, today) ==
    /\ steps < limit
    /\ Len(objs) < MaxObjs
    /\ LET r == Product(exists, rows, io, pname, pdescription, inventory,
                        pprice, ptags, today)
       IN  /\ exists' = r.exists
           /\ rows' = r.rows
           /\ objs' = IF r.exc = "none" THEN Append(objs, r.obj) ELSE objs
           /\ pidLog' = IF r.exc = "none" THEN Append(pidLog, r.obj.pid)
                        ELSE pidLog
           /\ appended' = IF r.exc # "none" THEN appended
                          ELSE IF r.wrote THEN Append(appended, Len(r.rows))
                          ELSE Append(appended, 0)
           /\ last' = Call("Create",
                           IF r.exc = "none" THEN Len(objs) + 1 ELSE 0,
                           IntArg(inventory), io, None, r)
    /\ steps' = steps + 1
    /\ UNCHANGED <<limit, actors>>

\* p = Product.get_product(pid)
Lookup(io, pid) ==
    /\ steps < limit
    /\ Len(objs) < MaxObjs
    /\ LET r == get_product(exists, rows, io, pid)
       IN  /\ objs' = IF r.found THEN Append(objs, r.obj) ELSE objs
           /\ appended' = IF r.found THEN Append(appended, 0 - 1)
                          ELSE appended
           /\ last' = Call("Lookup", IF r.found THEN Len(objs) + 1 ELSE 0,
                           IntArg(pid), io, None,
                           [exc |-> r.exc, diag |-> r.diag, wrote |-> FALSE,
                            obj |-> r.obj])
    /\ steps' = steps + 1
    /\ UNCHANGED <<limit, actors>>
    /\ UNCHANGED <<exists, rows, pidLog>>

\* the common shape of a call on the object objs[i] whose outcome is r
Mutate(op, i, arg, io, r) ==
    /\ rows' = r.rows
    /\ objs' = [objs EXCEPT ![i] = r.obj]
    /\ last' = Call(op, i, arg, io, objs[i], r)
    /\ steps' = steps + 1
    /\ UNCHANGED <<limit, actors>>
    /\ UNCHANGED <<exists, pidLog, appended>>

SetActive(i, io, v) ==
    /\ steps < limit
    /\ i \in 1..Len(objs)
    /\ Mutate("SetActive", i, BoolArg(v), io,
              set_is_active(objs[i], exists, rows, io, v))

SetName(i, io, v) ==
    /\ steps < limit
    /\ i \in 1..Len(objs)
    /\ Mutate("SetName", i, StrArg(v), io,
              set_pname(objs[i], exists, rows, io, v))

SetDescription(i, io, v) ==
    /\ steps < limit
    /\ i \in 1..Len(objs)
    /\ Mutate("SetDescription", i, StrArg(v), io,
              set_pdescription(objs[i], exists, rows, io, v))

SetPrice(i, io, v) ==
    /\ steps < limit
    /\ i \in 1..Len(objs)
    /\ Mutate("SetPrice", i, IntArg(v), io,
              set_pprice(objs[i], exists, rows, io, v))

SetTags(i, io, v) ==
    /\ steps < limit
    /\ i \in 1..Len(objs)
    /\ Mutate("SetTags", i, StrArg(v), io,
              set_ptags(objs[i], exists, rows, io, v))

AddInventory(i, io, n) ==
    /\ steps < limit
    /\ i \in 1..Len(objs)
    /\ objs[i].inventory + n <= MaxInv
    /\ Mutate("AddInventory", i, IntArg(n), io,
              add_inventory(objs[i], exists, rows, io, n))

RemoveInventory(i, io, n) ==
    /\ steps < limit
    /\ i \in 1..Len(objs)
    /\ Mutate("RemoveInventory", i, IntArg(n), io,
              remove_inventory(objs[i], exists, rows, io, n))

\* one call of the caller, under I/O conditions drawn from cio (the
\* constructor), rio (get_product) and wio (the setters and the inventory
\* operations)
Step(cio, rio, wio) ==
    \/ \E io \in cio, a \in CreateInputs :
           Create(io, a.pname, a.pdescription, a.inventory, a.pprice, a.ptags,
                  a.today)
    \/ \E io \in rio, pid \in 1..MaxPid : Lookup(io, pid)
    \/ \E i \in 1..MaxObjs, io \in wio, v \in BOOLEAN : SetActive(i, io, v)
    \/ \E i \in 1..MaxObjs, io \in wio, v \in Names : SetName(i, io, v)
    \/ \E i \in 1..MaxObjs, io \in wio, v \in Descriptions :
           SetDescription(i, io, v)
    \/ \E i \in 1..MaxObjs, io \in wio, v \in Prices : SetPrice(i, io, v)
    \/ \E i \in 1..MaxObjs, io \in wio, v \in TagSets : SetTags(i, io, v)
    \/ \E i \in 1..MaxObjs, io \in wio, n \in Amounts : AddInventory(i, io, n)
    \/ \E i \in 1..MaxObjs, io \in wio, n \in Amounts :
           RemoveInventory(i, io, n)

\* the program in an environment where any open() may be denied
Next == Step(IOConditions, ReadConditions, RewriteConditions)

Spec == Init /\ [][Next]_vars

\* the program in an environment where no open() is denied, followed one
\* call further
InitReliable == InitWith(MaxSteps + 1)

NextReliable == Step({"ok"}, {"ok"}, {"ok"})

SpecReliable == InitReliable /\ [][NextReliable]_vars

-----------------------------------------------------------------------------
(* The record store on its own: its four operations called directly on     *)
(* the file, in any order, as a caller of the class can.                   *)

\* the objects handed to _write_to_file and _update_file
StoreProducts ==
    {[pid |-> i, is_active |-> TRUE, inventory |-> a.inventory,
      pname |-> a.pname, pdescription |-> a.pdescription,
      pprice |-> a.pprice, added_date |-> "2024-01-02", ptags |-> a.ptags] :
         i \in 1..MaxObjs, a \in CreateInputs}

\* Product._generate_pid()
NextId(io) ==
    /\ steps < limit
    /\ LET g == generate_pid(exists, rows, io)
       IN  last' = Call("NextId", 0, IntArg(g.pid), io, None,
                        [exc |-> g.exc, diag |-> "none", wrote |-> FALSE,
                         obj |-> None])
    /\ steps' = steps + 1
    /\ UNCHANGED <<limit, actors>>
    /\ UNCHANGED <<exists, rows, objs, pidLog, appended>>

\* p._write_to_file()
AppendRow(io, p) ==
    /\ steps < limit
    /\ LET w == write_to_file(exists, rows, io, p)
       IN  /\ exists' = w.exists
           /\ rows' = w.rows
           /\ last' = Call("Append", 0, NoArg, io, p,
                           [exc |-> "none", diag |-> w.diag,
                            wrote |-> w.wrote, obj |-> p])
    /\ steps' = steps + 1
    /\ UNCHANGED <<limit, actors>>
    /\ UNCHANGED <<objs, pidLog, appended>>

\* p._update_file()
RewriteRow(io, p) ==
    /\ steps < limit
    /\ LET u == update_file(exists, rows, io, p)
       IN  /\ rows' = u.rows
           /\ last' = Call("RewriteRow", 0, NoArg, io, p,
                           [exc |-> u.exc, diag |-> u.diag,
                            wrote |-> u.wrote, obj |-> p])
    /\ steps' = steps + 1
    /\ UNCHANGED <<limit, actors>>
    /\ UNCHANGED <<exists, objs, pidLog, appended>>

\* Product.get_product(pid), the object dropped
FindById(io, pid) ==
    /\ steps < limit
    /\ LET r == get_product(exists, rows, io, pid)
       IN  last' = Call("FindById", 0, IntArg(pid), io, None,
                        [exc |-> r.exc, diag |-> r.diag, wrote |-> FALSE,
                         obj |-> r.obj])
    /\ steps' = steps + 1
    /\ UNCHANGED <<limit, actors>>
    /\ UNCHANGED <<exists, rows, objs, pidLog, appended>>

NextStore ==
    \/ \E io \in ReadConditions : NextId(io)
    \/ \E io \in IOConditions, p \in StoreProducts : AppendRow(io, p)
    \/ \E io \in RewriteConditions, p \in StoreProducts : RewriteRow(io, p)
    \/ \E io \in ReadConditions, pid \in 1..MaxPid : FindById(io, pid)

SpecStore == Init /\ [][NextStore]_vars

-----------------------------------------------------------------------------
(* The record store on a file that was edited by hand: one row no longer   *)
(* parses (int() or float() of a cell raises ValueError, product.py:358-    *)
(* 365).                                                                   *)

\* a well-formed row of the given id
GoodRow(pid) == RowOf([StoredProduct EXCEPT !.pid = pid])

\* the ways a row can fail to parse: a non-numeric id, inventory or price
Corruptions == {ColPid, ColInventory, ColPrice}

BadRow(pid, col) == [GoodRow(pid) EXCEPT ![col] = "n/a"]

\* tables of MaxPid data rows with ids 1..MaxPid, the row at position m
\* malformed in column col
CorruptTable(m, col) ==
    <<product_columns>> \o
        [k \in 1..MaxPid |-> IF k = m THEN BadRow(k, col) ELSE GoodRow(k)]

InitCorrupt ==
    /\ exists = TRUE
    /\ \E m \in 1..MaxPid, col \in Corruptions : rows = CorruptTable(m, col)
    /\ objs = <<>>
    /\ pidLog = <<>>
    /\ appended = <<>>
    /\ last = [op |-> "none", idx |-> 0, arg |-> NoArg, io |-> "ok",
               preExists |-> exists, preRows |-> rows, preObj |-> None,
               exc |-> "none", diag |-> "none", wrote |-> FALSE,
               result |-> None, prior |-> NoPrior]
    /\ steps = 0
    /\ limit = MaxSteps
    /\ actors = [a \in Actors |-> Idle]

SpecCorrupt == InitCorrupt /\ [][NextStore]_vars

-----------------------------------------------------------------------------
(* Two actors constructing products at once.  Inside __init__ the file is  *)
(* opened three times: by _generate_pid (product.py:34), by _file_exists   *)
(* (product.py:99) and for the append (product.py:100); the other actor    *)
(* can run between any two of them.  Every open() is granted.              *)

\* self.pid = self._generate_pid() and the assignments of product.py:35-41.
\* overlapped records that another actor held an id it had not yet
\* appended a row for.
ActorGeneratesPid(a, pname, pdescription, inventory, pprice, ptags, today) ==
    /\ actors[a].pc = "idle"
    /\ LET g == generate_pid(exists, rows, "ok")
           self == [pid |-> g.pid, is_active |-> TRUE, inventory |-> inventory,
                    pname |-> pname, pdescription |-> pdescription,
                    pprice |-> pprice, added_date |-> today, ptags |-> ptags]
       IN  actors' = [actors EXCEPT ![a] =
                         IF g.exc # "none" THEN [Idle EXCEPT !.pc = "raised"]
                         ELSE [pc |-> "generated", self |-> self,
                               write_header |-> FALSE,
                               overlapped |->
                                   \E b \in Actors \ {a} :
                                       actors[b].pc \in {"generated",
                                                         "checked"}]]
    /\ UNCHANGED <<exists, rows, objs, pidLog, appended, last, steps, limit>>

\* write_header = not self._file_exists()
ActorChecksFile(a) ==
    /\ actors[a].pc = "generated"
    /\ actors' = [actors EXCEPT ![a].pc = "checked",
                                ![a].write_header =
                                    ~file_exists(exists, "ok").val]
    /\ UNCHANGED <<exists, rows, objs, pidLog, appended, last, steps, limit>>

\* the with block of _write_to_file; __init__ returns the object
ActorAppends(a) ==
    /\ actors[a].pc = "checked"
    /\ exists' = TRUE
    /\ rows' = writerows(rows, actors[a].write_header, actors[a].self)
    /\ objs' = Append(objs, actors[a].self)
    /\ pidLog' = Append(pidLog, actors[a].self.pid)
    /\ appended' = Append(appended, Len(rows'))
    /\ actors' = [actors EXCEPT ![a].pc = "done"]
    /\ UNCHANGED <<last, steps, limit>>

NextConcurrent ==
    \/ \E a \in Actors, i \in CreateInputs, today \in Dates :
           ActorGeneratesPid(a, i.pname, i.pdescription, i.inventory,
                             i.pprice, i.ptags, today)
    \/ \E a \in Actors : ActorChecksFile(a)
    \/ \E a \in Actors : ActorAppends(a)

SpecConcurrent == Init /\ [][NextConcurrent]_vars

-----------------------------------------------------------------------------
(* Properties.  Each is stated on the record of the last call, which       *)
(* holds the file and the object before the call next to the state after   *)
(* it.                                                                     *)

\* number of data rows of a file content (the header line excluded)
DataRowCount(rws) == IF Len(rws) = 0 THEN 0 ELSE Len(rws) - 1

\* indices of the data rows of a file content
DataRows(rws) == 2..Len(rws)

SetterOps == {"SetActive", "SetName", "SetDescription", "SetPrice", "SetTags"}

\* the attribute a setter assigns
FieldOf(op, p) ==
    CASE op = "SetActive" -> p.is_active
      [] op = "SetName" -> p.pname
      [] op = "SetDescription" -> p.pdescription
      [] op = "SetPrice" -> p.pprice
      [] op = "SetTags" -> p.ptags

\* the value a setter was passed
ArgOf(op, arg) ==
    CASE op = "SetActive" -> arg.flag
      [] op = "SetPrice" -> arg.num
      [] OTHER -> arg.text

\* re-reading the row of a pid from a readable store
ReRead(ex, rws, pid) == get_product(ex, rws, "ok", pid)

\* C1: for every table state and every valid creation input, Create
\* returns an entity whose id is the number of data rows before the call
\* plus 1, and afterwards the table holds exactly one more data row, which
\* carries that id, is_active=True and the given inventory; on an empty or
\* absent table the first Create yields id 1 and one data row.
C1_CreateTakesNextIdAndAddsOneRow ==
    last.op = "Create" =>
        /\ last.exc = "none"
        /\ last.result.pid = DataRowCount(last.preRows) + 1
        /\ DataRowCount(rows) = DataRowCount(last.preRows) + 1
        /\ rows[Len(rows)][ColPid] = StrOfInt(last.result.pid)
        /\ rows[Len(rows)][ColActive] = "True"
        /\ rows[Len(rows)][ColInventory] = StrOfInt(last.arg.num)
        /\ (DataRowCount(last.preRows) = 0 =>
                last.result.pid = 1 /\ DataRowCount(rows) = 1)

\* C2: after any successful setter on any entity (several entities may be
\* held for one id), re-reading the row by id yields the new value of the
\* set field and, for every other field, the value the store held
\* immediately before the call.
C2_SetterChangesOnlyItsField ==
    (/\ last.op \in SetterOps
     /\ last.diag = "none"
     /\ ReRead(last.preExists, last.preRows, last.preObj.pid).found) =>
        LET before == ReRead(last.preExists, last.preRows, last.preObj.pid).obj
            after == ReRead(exists, rows, last.preObj.pid)
        IN  /\ after.found
            /\ FieldOf(last.op, after.obj) = ArgOf(last.op, last.arg)
            /\ \A op \in SetterOps \ {last.op} :
                   FieldOf(op, after.obj) = FieldOf(op, before)
            /\ after.obj.pid = before.pid
            /\ after.obj.inventory = before.inventory
            /\ after.obj.added_date = before.added_date

C4_InvalidAmountIsNoOp ==
    /\ (last.op = "AddInventory" /\ last.arg.num <= 0) =>
           /\ last.diag = "add_invalid"
           /\ objs[last.idx] = last.preObj
           /\ ~last.wrote
           /\ rows = last.preRows /\ exists = last.preExists
    /\ (/\ last.op = "RemoveInventory"
        /\ (last.arg.num <= 0 \/ last.arg.num > last.preObj.inventory)) =>
           /\ last.diag = "remove_invalid"
           /\ objs[last.idx] = last.preObj
           /\ ~last.wrote
           /\ rows = last.preRows /\ exists = last.preExists

\* C4 witness: a removal of more than the entity holds was attempted on an
\* entity whose row is in a writable file
C4_Witness ==
    /\ last.op = "RemoveInventory"
    /\ last.io = "ok"
    /\ last.arg.num > last.preObj.inventory
    /\ FirstMatch(rows, last.preObj.pid) # 0

\* the entity of the last call has a row in the store that held the
\* entity's inventory when the call was made
RowHeldInventory ==
    /\ FirstMatch(last.preRows, last.preObj.pid) # 0
    /\ last.preRows[FirstMatch(last.preRows, last.preObj.pid)][ColInventory]
           = StrOfInt(last.preObj.inventory)

\* the inventory cell of the row of the last call's entity
InventoryCell == rows[FirstMatch(last.preRows, last.preObj.pid)][ColInventory]

C6_IdsUniqueAndIncreasing ==
    /\ \A j \in DataRows(rows), k \in DataRows(rows) :
           j # k => rows[j][ColPid] # rows[k][ColPid]
    /\ \A a \in 1..Len(pidLog), b \in 1..Len(pidLog) :
           a < b => pidLog[a] < pidLog[b]

\* C7: a lookup lets no exception escape and leaves the file unchanged;
\* on a table with no data row of the id it returns None, and it reports
\* not-found when the file is missing or could be read.
C7_LookupMissIsReportedNotRaised ==
    last.op = "Lookup" =>
        /\ last.exc = "none"
        /\ ~last.wrote
        /\ rows = last.preRows /\ exists = last.preExists
        /\ (\A k \in DataRows(last.preRows) :
                last.preRows[k][ColPid] # StrOfInt(last.arg.num)) =>
               /\ last.idx = 0
               /\ last.result = None
               /\ last.diag # "none"
               /\ ~last.preExists => last.diag = "lookup_filenotfound"
               /\ (last.preExists /\ last.io = "ok") =>
                      last.diag = "lookup_notfound"

\* C7 witness: a lookup of an id that no row carries, in a readable table
\* that holds a row of another id, and a lookup in a missing file
C7_Witness ==
    /\ last.op = "Lookup"
    /\ last.io = "ok"
    /\ last.preExists
    /\ DataRowCount(last.preRows) >= 1
    /\ \A k \in DataRows(last.preRows) :
           last.preRows[k][ColPid] # StrOfInt(last.arg.num)
    /\ last.diag = "lookup_notfound"

\* C8: no core operation lets an exception escape to the caller, whatever
\* the state of the backing file.
C8_NoExceptionEscapes == last.exc = "none"

\* C9: whenever no rewrite is in progress, the mutable fields of every
\* entity equal those of its persisted row; when a setter's commit fails
\* the row stays as it was and the entity is not left holding a different
\* value.
C9_MemoryEqualsDisk ==
    /\ \A i \in 1..Len(objs) :
           FirstMatch(rows, objs[i].pid) # 0 =>
               UpdatedRow(rows[FirstMatch(rows, objs[i].pid)], objs[i])
                   = rows[FirstMatch(rows, objs[i].pid)]
    /\ (last.op \in SetterOps /\ last.diag # "none") =>
           /\ rows = last.preRows
           /\ FirstMatch(rows, last.preObj.pid) # 0 =>
                  FieldOf(last.op, ReRead(exists, rows, last.preObj.pid).obj)
                      = FieldOf(last.op, objs[last.idx])

\* C10: Append writes the header row first whenever the file is absent or
\* exists with zero length, then writes the given row as the last line;
\* after any successful Append the first line of the file is the header.
C10_AppendWritesHeaderFirst ==
    (last.op = "Append" /\ last.wrote) =>
        /\ rows[Len(rows)] = RowOf(last.preObj)
        /\ rows[1] = product_columns
        /\ (~last.preExists \/ Len(last.preRows) = 0) =>
               rows = <<product_columns, RowOf(last.preObj)>>

\* C11: for every entity produced by Create whose append succeeded,
\* get_product of its id returns an entity whose id, is_active, inventory,
\* name, description, price, added_date and tags equal those of the
\* in-memory entity that was serialized.
C11_CreateRoundTrip ==
    (last.op = "Create" /\ last.wrote) =>
        /\ ReRead(exists, rows, last.result.pid).found
        /\ ReRead(exists, rows, last.result.pid).obj = last.result

\* the last two calls were SetName with the same value on the same
\* entity
SetNameTwice ==
    /\ last.op = "SetName"
    /\ last.prior.op = "SetName"
    /\ last.prior.idx = last.idx
    /\ last.prior.arg = last.arg

\* C12: calling SetName(x) twice in succession on an entity leaves the
\* persisted table in the same state as calling SetName(x) once: the
\* second call changes nothing that the first call committed, and when
\* only the second call is committed the table is the one a single
\* committed call yields.
C12_SetNameIdempotent ==
    SetNameTwice =>
        /\ exists = last.preExists
        /\ objs[last.idx] = last.preObj
        /\ (last.prior.diag = "none" \/ last.diag # "none") =>
               rows = last.preRows
        /\ (last.prior.diag # "none" /\ last.diag = "none") =>
               rows = set_pname(last.prior.preObj, last.preExists,
                                last.prior.preRows, "ok", last.arg.text).rows

\* C12 witness: a SetName(x) that changed the name in the row was
\* committed, and the same call was made and committed again
C12_Witness ==
    /\ SetNameTwice
    /\ last.prior.diag = "none"
    /\ last.diag = "none"
    /\ last.prior.preObj.pname # last.arg.text
    /\ FirstMatch(last.prior.preRows, last.preObj.pid) # 0
    /\ rows[FirstMatch(rows, last.preObj.pid)][ColName] = last.arg.text
    /\ rows # last.prior.preRows

\* C13: when RewriteRow is invoked (open() granted) for an entity whose id
\* matches no row of an existing table, the file content after the call
\* equals the content before the call and no error is raised or
\* reported.
C13_RewriteOfAbsentIdChangesNothing ==
    (/\ last.op = "RewriteRow"
     /\ last.io = "ok"
     /\ last.preExists
     /\ \A k \in 1..Len(last.preRows) :
            last.preRows[k][ColPid] # StrOfInt(last.preObj.pid)) =>
        /\ exists
        /\ rows = last.preRows
        /\ last.exc = "none"
        /\ last.diag = "none"

\* the entity of the last call had a data row in the table when the call
\* was made
EntityHadRow ==
    \E k \in DataRows(last.preRows) :
        last.preRows[k][ColPid] = StrOfInt(last.preObj.pid)

Malformed(row) ==
    \/ ~IsIntText(row[ColPid])
    \/ ~IsIntText(row[ColInventory])
    \/ ~IsFloatText(row[ColPrice])

\* the data rows of a table that carry the id
RowsOfId(rws, pid) == {k \in DataRows(rws) : rws[k][ColPid] = StrOfInt(pid)}

\* C15: in a table with exactly one malformed row (non-numeric id,
\* inventory or price), wherever it sits, a lookup (open() granted) of the
\* id of a well-formed row returns that row's entity, and a lookup of the
\* id of the malformed row returns no entity; no exception escapes.
C15_MalformedRowFailsOnlyItsLookup ==
    (/\ last.op = "FindById"
     /\ last.io = "ok"
     /\ Cardinality({k \in DataRows(last.preRows) :
                        Malformed(last.preRows[k])}) = 1
     /\ Cardinality(RowsOfId(last.preRows, last.arg.num)) = 1) =>
        LET k == CHOOSE k \in RowsOfId(last.preRows, last.arg.num) : TRUE
        IN  /\ last.exc = "none"
            /\ ~Malformed(last.preRows[k]) =>
                   /\ last.result # None
                   /\ RowOf(last.result) = last.preRows[k]
            /\ Malformed(last.preRows[k]) => last.result = None

\* C16: in every reachable state the price of every entity and of every
\* persisted data row is > 0.
C16_PriceAlwaysPositive ==
    /\ \A i \in 1..Len(objs) : objs[i].pprice > 0
    /\ \A k \in DataRows(rows) :
           /\ IsFloatText(rows[k][ColPrice])
           /\ FloatOfText(rows[k][ColPrice]) > 0

MutatorOps == SetterOps \cup {"AddInventory", "RemoveInventory"}

\* C17: no call changes the id cell or the added_date cell of a persisted
\* row: every row of the file before a call is still at its place after
\* it with the same (id, added_date) pair, which is the pair its Create
\* wrote.
C17_IdAndDateImmutable ==
    /\ Len(rows) >= Len(last.preRows)
    /\ \A k \in 1..Len(last.preRows) :
           /\ rows[k][ColPid] = last.preRows[k][ColPid]
           /\ rows[k][ColDate] = last.preRows[k][ColDate]
    /\ (last.op = "Create" /\ last.wrote) =>
           /\ rows[Len(rows)][ColPid] = StrOfInt(last.result.pid)
           /\ rows[Len(rows)][ColDate] = last.result.added_date

\* C17 witness: a setter or inventory operation was committed and changed
\* the row of an entity that holds another added_date than the row does
C17_Witness ==
    /\ last.op \in MutatorOps
    /\ last.diag = "none"
    /\ FirstMatch(last.preRows, last.preObj.pid) # 0
    /\ rows # last.preRows
    /\ rows[FirstMatch(rows, last.preObj.pid)][ColDate]
           # last.preObj.added_date

\* C18: after every successful update (a setter or an inventory
\* operation whose rewrite was committed) the file is a complete,
\* well-formed table: the header is the first line, the number of data
\* rows is what it was, every row has all 8 columns, and every data row
\* other than the first row matching the entity's id is identical to what
\* it was before the update.
C18_UpdateKeepsTableWellFormed ==
    (last.op \in MutatorOps /\ last.diag = "none" /\ last.wrote) =>
        /\ rows[1] = product_columns
        /\ DataRowCount(rows) = DataRowCount(last.preRows)
        /\ \A k \in 1..Len(rows) : Len(rows[k]) = Len(product_columns)
        /\ \A k \in DataRows(rows) :
               k # FirstMatch(last.preRows, last.preObj.pid) =>
                   rows[k] = last.preRows[k]

\* C19: a setter or inventory operation on an entity that a Create
\* returned (its append succeeded or not) leaves unchanged, as the store
\* reads it, the row that the Create of every other entity appended.
C19_OtherProductsRowUntouched ==
    (last.op \in MutatorOps /\ appended[last.idx] >= 0) =>
        \A j \in 1..Len(objs) :
            (j # last.idx /\ appended[j] > 0) =>
                csv_reader(rows)[appended[j]]
                    = csv_reader(last.preRows)[appended[j]]

\* both actors took their id before either appended its row
Interleaved == \E a \in Actors : actors[a].overlapped

\* C20: when two Creates by two actors interleave so that both take their
\* id before either appends, and both append, both entities have the same
\* id and the table holds two data rows carrying it; when the Creates do
\* not interleave that way no two data rows carry the same id.
C20_InterleavedCreatesShareAnId ==
    /\ (Interleaved /\ \A a \in Actors : actors[a].pc = "done") =>
           /\ \A a \in Actors, b \in Actors :
                  actors[a].self.pid = actors[b].self.pid
           /\ \A a \in Actors :
                  Cardinality(RowsOfId(rows, actors[a].self.pid)) = 2
    /\ ~Interleaved =>
           \A j \in DataRows(rows), k \in DataRows(rows) :
               j # k => rows[j][ColPid] # rows[k][ColPid]

\* C20 witness: both actors took their id before either appended, both
\* have appended, and two data rows carry the same id
C20_Witness ==
    /\ Interleaved
    /\ \A a \in Actors : actors[a].pc = "done"
    /\ \E j \in DataRows(rows), k \in DataRows(rows) :
           j # k /\ rows[j][ColPid] = rows[k][ColPid]

====
